---- MODULE Spec2Model ----
(***************************************************************************)
(* A model of ezstat.py: the dispatcher _call, Statistics.do and           *)
(* MappingStatistics.do, over a small universe of Python values.           *)
(*                                                                         *)
(* A Python value is a record tagged with its type in field t.  A dict is  *)
(* the sequence of its items in insertion order.  A dict key (a name) is   *)
(* the sequence of its characters, so that the f-string of line 122 is a   *)
(* concatenation; an attribute name is a plain string.                     *)
(***************************************************************************)
EXTENDS Integers, Sequences, FiniteSets, TLC

\* ------------------------------------------------------------- bounds
\* The largest number of entries of a Statistics set.
MaxDefs == 2
\* The largest number of elements of an iterable subject.
MaxItems == 2

\* ------------------------------------------------------ Python values
None == [t |-> "NoneType"]
PyInt(n) == [t |-> "int", n |-> n]
Str(v) == [t |-> "str", v |-> v]
Tup(es) == [t |-> "tuple", elems |-> es]
List(es) == [t |-> "list", elems |-> es]
Dict(items) == [t |-> "dict", items |-> items]
\* A plain object with the attributes attrs, a sequence of [a, v].
Obj(attrs) == [t |-> "object", attrs |-> attrs]
\* A bound method taking no argument; result is what calling it does.
Method(result) == [t |-> "method", result |-> result]
\* A function of one argument, known by its name.
Function(name) == [t |-> "function", name |-> name]

\* What a call does: it returns val, or it raises exc.
Ok(v) == [ok |-> TRUE, val |-> v]
Raise(e) == [ok |-> FALSE, exc |-> e]

RECURSIVE SumInts(_)
SumInts(es) == IF es = <<>> THEN 0 ELSE Head(es).n + SumInts(Tail(es))

\* np.array(P) for a list P of numbers: a 1-D array, with the attributes of
\* an ndarray that the statistics of this model name.
np_array(P) == [t |-> "ndarray", elems |-> P]

\* The attributes of a value, as getattr sees them.
AttrsOf(obj) ==
    CASE obj.t = "object" -> obj.attrs
      [] obj.t = "ndarray" ->
            << [a |-> "shape", v |-> Tup(<<PyInt(Len(obj.elems))>>)],
               [a |-> "sum", v |-> Method(Ok(PyInt(SumInts(obj.elems))))] >>
      [] OTHER -> <<>>

hasattr(obj, name) == \E n \in 1..Len(AttrsOf(obj)) : AttrsOf(obj)[n].a = name

getattr(obj, name) ==
    AttrsOf(obj)[CHOOSE n \in 1..Len(AttrsOf(obj)) : AttrsOf(obj)[n].a = name].v

callable(f) == f.t \in {"method", "function"}

\* f(): a bound method runs; a function of one argument lacks its argument.
Call0(f) == IF f.t = "method" THEN f.result ELSE Raise("TypeError")

Sized(x) == x.t \in {"list", "tuple", "ndarray"}

\* s(obj) for the user functions of this model: len, and one that raises.
Call1(f, x) ==
    CASE f.t = "method" -> Raise("TypeError")
      [] f.t = "function" /\ f.name = "len" ->
            IF Sized(x) THEN Ok(PyInt(Len(x.elems))) ELSE Raise("TypeError")
      [] OTHER -> Raise("RuntimeError")

\* bool(v), as the if statement of line 169 takes it.
truthy(v) ==
    CASE v.t = "NoneType" -> FALSE
      [] v.t = "int" -> v.n # 0
      [] v.t = "str" -> v.v # ""
      [] v.t \in {"tuple", "list"} -> v.elems # <<>>
      [] OTHER -> TRUE

\* ---------------------------------------------------------- _call
\* The name k of line 84 is bound nowhere in _call nor in the module: the
\* f-string raises NameError before TypeError is constructed.
unsupported_type_error == Raise("NameError")

_call_attr_uncalled(s, obj) ==
    IF s.t = "str"
    THEN IF ~hasattr(obj, s.v) THEN Raise("ValueError")
         ELSE Ok(getattr(obj, s.v))
    ELSE IF callable(s) THEN Call1(s, obj)
    ELSE IF s.t \in {"int", "float", "tuple"} THEN Ok(s)
    ELSE unsupported_type_error

_call_missing_is_none(s, obj) ==
    IF s.t = "str"
    THEN IF ~hasattr(obj, s.v) THEN Ok(None)
         ELSE IF callable(getattr(obj, s.v)) THEN Call0(getattr(obj, s.v))
         ELSE Ok(getattr(obj, s.v))
    ELSE IF callable(s) THEN Call1(s, obj)
    ELSE IF s.t \in {"int", "float", "tuple"} THEN Ok(s)
    ELSE unsupported_type_error

_call(s, obj) ==
    IF s.t = "str"
    THEN IF ~hasattr(obj, s.v) THEN Raise("ValueError")
         ELSE IF callable(getattr(obj, s.v)) THEN Call0(getattr(obj, s.v))
         ELSE Ok(getattr(obj, s.v))
    ELSE IF callable(s) THEN Call1(s, obj)
    ELSE IF s.t \in {"int", "float", "tuple"} THEN Ok(s)
    ELSE unsupported_type_error

\* ------------------------------------------------------------ dicts
Digits == <<"0", "1", "2", "3", "4", "5", "6", "7", "8", "9">>

\* str(i) of a natural number, in decimal.
RECURSIVE str_int(_)
str_int(n) == IF n < 10 THEN <<Digits[n + 1]>>
              ELSE str_int(n \div 10) \o <<Digits[(n % 10) + 1]>>

\* f'{k}-{i}'
fmt_key(k, n) == k \o <<"-">> \o str_int(n)

HasKey(d, k) == \E n \in 1..Len(d) : d[n].k = k

Lookup(d, k) == d[CHOOSE n \in 1..Len(d) : d[n].k = k].v

\* d[k] = v: a key already there keeps its place and takes the new value.
DictSet(d, k, v) ==
    IF HasKey(d, k)
    THEN [n \in 1..Len(d) |-> IF d[n].k = k THEN [k |-> k, v |-> v] ELSE d[n]]
    ELSE Append(d, [k |-> k, v |-> v])

Keys(d) == [n \in 1..Len(d) |-> d[n].k]

\* ------------------------------------------------- Statistics.do
\* res = {}
do_new_res == <<>>

\* for i, ri in enumerate(r): res[f'{k}-{i}'] = ri, from index n on.
RECURSIVE split_into(_, _, _, _)
split_into(res, k, es, n) ==
    IF es = <<>> THEN res
    ELSE split_into(DictSet(res, fmt_key(k, n), Head(es)), k, Tail(es), n + 1)

split_one_based(res, k, r, split) ==
    IF split /\ r.t = "tuple" THEN split_into(res, k, r.elems, 1)
    ELSE DictSet(res, k, r)

split_keeps_name(res, k, r, split) ==
    IF split /\ r.t = "tuple"
    THEN DictSet(split_into(res, k, r.elems, 0), k, r)
    ELSE DictSet(res, k, r)

split_always(res, k, r, split) ==
    IF r.t = "tuple" THEN split_into(res, k, r.elems, 0)
    ELSE DictSet(res, k, r)

\* Lines 120-124: what one value r of name k adds to res.
do_store(res, k, r, split) ==
    IF split /\ r.t = "tuple" THEN split_into(res, k, r.elems, 0)
    ELSE DictSet(res, k, r)

do_body_swallow(res, k, s, obj, split) ==
    IF _call(s, obj).ok
    THEN Ok(do_store(res, k, _call(s, obj).val, split))
    ELSE Ok(DictSet(res, k, None))

\* Lines 118-124: one turn of the loop; an error of _call is not caught.
do_body(res, k, s, obj, split) ==
    IF _call(s, obj).ok
    THEN Ok(do_store(res, k, _call(s, obj).val, split))
    ELSE _call(s, obj)

\* Lines 114-125 from the n-th item on.
RECURSIVE do_from(_, _, _, _, _)
do_from(self, n, res, obj, split) ==
    IF n > Len(self) THEN Ok(Dict(res))
    ELSE IF do_body(res, self[n].k, self[n].s, obj, split).ok
         THEN do_from(self, n + 1,
                      do_body(res, self[n].k, self[n].s, obj, split).val,
                      obj, split)
         ELSE do_body(res, self[n].k, self[n].s, obj, split)

Statistics_do(self, obj, split) == do_from(self, 1, do_new_res, obj, split)

\* ------------------------------------------ MappingStatistics.do
key_is_set_always(key) == TRUE

\* if self.key:
key_is_set(key) == truthy(key)

iterable(x) == x.t \in {"list", "tuple", "ndarray"}

bind_obj_cached(old, x) == IF old.t = "ndarray" THEN old ELSE x

\* do(self, obj, split=False): obj is the argument of this call.
bind_obj(old, x) == x

\* -------------------------------------------------------- inputs
K == <<"k">>
K0 == <<"k", "-", "0">>
M == <<"m">>
Names == {K, K0, M}

\* The definitions a set holds: attribute names, functions, constants, and
\* one value of no permitted type.
StatDefs == { Str("shape"), Str("sum"), Function("len"), Function("boom"),
              PyInt(7), Tup(<<PyInt(1), Tup(<<PyInt(2)>>)>>), None }

\* The definitions of the sets that project their subject first.
MapDefs == { Str("shape"), Str("sum"), Function("len"), None }

KeyDefs == { None, PyInt(0), PyInt(1), Tup(<<>>), Str("sum") }

\* Subjects: an array-like object, one of shape () whose sum raises, one
\* with no attribute, and the lists of such objects.
ObjA == Obj(<< [a |-> "shape", v |-> Tup(<<PyInt(2), PyInt(3)>>)],
               [a |-> "sum", v |-> Method(Ok(PyInt(5)))] >>)
ObjB == Obj(<< [a |-> "shape", v |-> Tup(<<>>)],
               [a |-> "sum", v |-> Method(Raise("ZeroDivisionError"))] >>)
ObjD == Obj(<<>>)
Elements == {ObjA, ObjD}

SeqsUpTo(S, n) == UNION { [1..m -> S] : m \in 0..n }

Subjects == {ObjA, ObjB} \cup { List(es) : es \in SeqsUpTo(Elements, MaxItems) }

Injective(f) == \A a, b \in DOMAIN f : f[a] = f[b] => a = b

\* The sets a caller can build from a literal: names are unique.
SetsOver(defs) ==
    { d \in SeqsUpTo([k : Names, s : defs], MaxDefs) : Injective(Keys(d)) }

\* ---------------------------------------------------------- state
VARIABLES
    cls,       \* the class of the set: "Statistics" or "MappingStatistics"
    self,      \* the set's items, in iteration order
    key,       \* self._key
    np_bound,  \* whether the module's global np names numpy
    pc,        \* where the current call stands
    arg,       \* the subject the caller passed
    obj,       \* the local obj of do
    split,     \* the local split of do
    P,         \* the list the comprehension of line 170 has built
    i,         \* how many items the loop of line 115 has taken
    res,       \* the local res of Statistics.do
    ret,       \* what the call returned or raised
    log,       \* every evaluation of _call in the current call, in order
    prev       \* what the same call returned the time before

vars == <<cls, self, key, np_bound, pc, arg, obj, split, P, i, res, ret, log, prev>>

NoRet == [t |-> "pending"]
NoPrev == [t |-> "nothing"]

Finished == pc \in {"returned", "raised"}

NoCall ==
    /\ pc = "idle"
    /\ arg = None
    /\ obj = None
    /\ split = FALSE
    /\ P = <<>>
    /\ i = 0
    /\ res = <<>>
    /\ ret = NoRet
    /\ log = <<>>
    /\ prev = NoPrev

\* Statistics({...}); the module, as imported, binds no np.
InitStat ==
    /\ cls = "Statistics"
    /\ self \in SetsOver(StatDefs)
    /\ key = None
    /\ np_bound = FALSE
    /\ NoCall

\* MappingStatistics(key, {...}); np is bound when the host program has
\* put numpy into the module's namespace.
InitMap ==
    /\ cls = "MappingStatistics"
    /\ self \in SetsOver(MapDefs)
    /\ key \in KeyDefs
    /\ np_bound \in BOOLEAN
    /\ NoCall

\* Lines 165-171 up to the first evaluation, then line 114.
Enter(x, sp) ==
    /\ arg' = x
    /\ obj' = bind_obj(obj, x)
    /\ split' = sp
    /\ P' = <<>>
    /\ i' = 0
    /\ res' = do_new_res
    /\ log' = <<>>
    /\ IF cls = "MappingStatistics" /\ key_is_set(key)
       THEN IF ~np_bound
            THEN pc' = "raised" /\ ret' = Raise("NameError")
            ELSE IF ~iterable(bind_obj(obj, x))
                 THEN pc' = "raised" /\ ret' = Raise("TypeError")
                 ELSE pc' = "project" /\ ret' = NoRet
       ELSE pc' = "loop" /\ ret' = NoRet
    /\ UNCHANGED <<cls, self, key, np_bound>>

\* s(obj, split): a call of do.
Call ==
    /\ pc = "idle"
    /\ \E x \in Subjects, sp \in BOOLEAN : Enter(x, sp)
    /\ prev' = NoPrev

\* The same call once more, on the same subject with the same flag.
Repeat ==
    /\ Finished
    /\ prev = NoPrev
    /\ Enter(arg, split)
    /\ prev' = ret

\* Line 170: one element of the comprehension.
ProjectStep ==
    /\ pc = "project"
    /\ Len(P) < Len(obj.elems)
    /\ LET e == obj.elems[Len(P) + 1]
           r == _call(key, e)
       IN /\ log' = Append(log, [ph |-> "key", s |-> key, x |-> e, out |-> r])
          /\ IF r.ok
             THEN /\ P' = Append(P, r.val)
                  /\ UNCHANGED <<pc, ret>>
             ELSE /\ pc' = "raised"
                  /\ ret' = r
                  /\ UNCHANGED P
    /\ UNCHANGED <<cls, self, key, np_bound, arg, obj, split, i, res, prev>>

\* Line 170: the comprehension is exhausted, obj is rebound to the array.
ProjectDone ==
    /\ pc = "project"
    /\ Len(P) = Len(obj.elems)
    /\ obj' = np_array(P)
    /\ pc' = "loop"
    /\ UNCHANGED <<cls, self, key, np_bound, arg, split, P, i, res, ret, log, prev>>

\* Lines 115-124: one item of the set.
LoopStep ==
    /\ pc = "loop"
    /\ i < Len(self)
    /\ LET it == self[i + 1]
           b == do_body(res, it.k, it.s, obj, split)
       IN /\ log' = Append(log, [ph |-> "stat", s |-> it.s, x |-> obj,
                                 out |-> _call(it.s, obj)])
          /\ IF b.ok
             THEN /\ res' = b.val
                  /\ i' = i + 1
                  /\ UNCHANGED <<pc, ret>>
             ELSE /\ pc' = "raised"
                  /\ ret' = b
                  /\ UNCHANGED <<res, i>>
    /\ UNCHANGED <<cls, self, key, np_bound, arg, obj, split, P, prev>>

\* Line 125: return res.
LoopDone ==
    /\ pc = "loop"
    /\ i = Len(self)
    /\ pc' = "returned"
    /\ ret' = Ok(Dict(res))
    /\ UNCHANGED <<cls, self, key, np_bound, arg, obj, split, P, i, res, log, prev>>

\* Lines 89-90: the caller has the result; the locals of the call are gone.
Return ==
    /\ Finished
    /\ pc' = "idle"
    /\ arg' = None
    /\ obj' = None
    /\ split' = FALSE
    /\ P' = <<>>
    /\ i' = 0
    /\ res' = <<>>
    /\ ret' = NoRet
    /\ log' = <<>>
    /\ prev' = NoPrev
    /\ UNCHANGED <<cls, self, key, np_bound>>

\* Lines 161-163: the key setter, between calls.
SetKey ==
    /\ pc = "idle"
    /\ \E v \in KeyDefs : v # key /\ key' = v
    /\ UNCHANGED <<cls, self, np_bound, pc, arg, obj, split, P, i, res, ret, log, prev>>

NextStat == Call \/ LoopStep \/ LoopDone \/ Return

NextMap ==
    Call \/ Repeat \/ ProjectStep \/ ProjectDone \/ LoopStep \/ LoopDone \/ Return \/ SetKey

\* A Statistics set, called again and again.
SpecStat == InitStat /\ [][NextStat]_vars

\* A MappingStatistics set, called again and again, its key reassigned
\* between calls.
SpecMap == InitMap /\ [][NextMap]_vars

\* ------------------------------------------------------- properties
StatLog == SelectSeq(log, LAMBDA e : e.ph = "stat")
KeyLog == SelectSeq(log, LAMBDA e : e.ph = "key")

\* The value the n-th definition evaluated to, in a call that got that far.
ValueAt(n) == StatLog[n].out.val

Result == ret.val.items

\* What the dispatcher owes for definition d on subject x.
Dispatched(d, x, out) ==
    /\ d.t = "str" =>
          \A n \in 1..Len(AttrsOf(x)) :
             AttrsOf(x)[n].a = d.v =>
                IF AttrsOf(x)[n].v.t = "method"
                THEN out = AttrsOf(x)[n].v.result
                ELSE out = Ok(AttrsOf(x)[n].v)
    /\ d.t = "function" => out = Call1(d, x)
    /\ d.t \in {"int", "tuple"} => out = Ok(d)

\* C1: every evaluation returns x.a() for a callable attribute a, x.a for
\* any other attribute, d(x) for a callable d and d itself for a numeric or
\* tuple constant; and an unsplit result maps each name to that value.
C1_Dispatch ==
    /\ \A n \in 1..Len(log) : Dispatched(log[n].s, log[n].x, log[n].out)
    /\ (pc = "returned" /\ ~split) =>
          \A n \in 1..Len(self) :
             /\ HasKey(Result, self[n].k)
             /\ Ok(Lookup(Result, self[n].k)) = StatLog[n].out
             /\ Dispatched(self[n].s, arg, Ok(Lookup(Result, self[n].k)))

C1_Witness ==
    /\ pc = "returned" /\ ~split /\ arg = ObjA
    /\ self = << [k |-> K, s |-> Str("sum")], [k |-> M, s |-> Function("len")] >>
         \/ self = << [k |-> K, s |-> Str("shape")], [k |-> M, s |-> PyInt(7)] >>
    /\ Len(Result) = 2

\* The entries the n-th definition owes to the result of a finished call: a
\* tuple gives 'k-0' .. 'k-(len-1)', no further 'k-j' that is not another
\* definition's own name, and no entry k; another value gives the entry k.
EntriesOf(n) ==
    IF split /\ ValueAt(n).t = "tuple"
    THEN /\ \A j \in 1..Len(ValueAt(n).elems) :
               /\ HasKey(Result, fmt_key(self[n].k, j - 1))
               /\ Lookup(Result, fmt_key(self[n].k, j - 1)) = ValueAt(n).elems[j]
         /\ \A j \in 0..Len(Result) :
               HasKey(Result, fmt_key(self[n].k, j)) =>
                  \/ j < Len(ValueAt(n).elems)
                  \/ \E m \in 1..Len(self) : self[m].k = fmt_key(self[n].k, j)
         /\ ~HasKey(Result, self[n].k)
    ELSE /\ HasKey(Result, self[n].k)
         /\ Lookup(Result, self[n].k) = ValueAt(n)

\* The name of one entry is the name a split generates for another.
NameClash ==
    \E n, m \in 1..Len(self) :
       /\ split /\ ValueAt(n).t = "tuple"
       /\ \E j \in 1..Len(ValueAt(n).elems) : self[m].k = fmt_key(self[n].k, j - 1)

\* C2 as stated: a tuple value of name k is split into 'k-0', 'k-1', ...
\* with no entry k, any other value is the single entry k.
C2_AsStated ==
    pc = "returned" => \A n \in 1..Len(self) : EntriesOf(n)

\* C2, amended: the same, in every call in which no name of the set is a
\* name generated by splitting another entry.
C2_Split ==
    (pc = "returned" /\ ~NameClash) => \A n \in 1..Len(self) : EntriesOf(n)

C2_Witness ==
    /\ pc = "returned" /\ split /\ ~NameClash
    /\ \E n \in 1..Len(self) :
          /\ ValueAt(n) = Tup(<<PyInt(1), Tup(<<PyInt(2)>>)>>)
          /\ Lookup(Result, fmt_key(self[n].k, 1)) = Tup(<<PyInt(2)>>)
    /\ \E n \in 1..Len(self) : ValueAt(n) = Tup(<<PyInt(2), PyInt(3)>>)

\* The n-th definition is text naming an attribute the subject lacks.
MissingAt(n) ==
    /\ self[n].s.t = "str"
    /\ \A a \in 1..Len(AttrsOf(arg)) : AttrsOf(arg)[a].a # self[n].s.v

\* C3 as stated: a set with a text definition naming a missing attribute
\* fails with the error of the hasattr check.  Sets holding a definition of
\* no permitted type are left aside here: they fail as C4 describes.
C3_AsStated ==
    (Finished /\ \A m \in 1..Len(self) : self[m].s # None) =>
       \A n \in 1..Len(self) : MissingAt(n) => ret = Raise("ValueError")

\* C3, amended: such a call fails and returns no mapping; the error is that
\* of the hasattr check when the call reaches that definition, and that of
\* an earlier definition otherwise.
C3_Missing ==
    Finished =>
       \A n \in 1..Len(self) :
          MissingAt(n) =>
             /\ pc = "raised" /\ ~ret.ok
             /\ Len(StatLog) <= n
             /\ Len(StatLog) = n => ret = Raise("ValueError")
             /\ Len(StatLog) < n => ret = StatLog[Len(StatLog)].out

C3_Witness ==
    /\ pc = "raised" /\ ret = Raise("ValueError")
    /\ Len(self) = 2 /\ MissingAt(2) /\ ~MissingAt(1) /\ Len(StatLog) = 2

\* C4: a definition that is neither text, callable nor a constant fails
\* with TypeError.
C4_TypeError ==
    Finished =>
       \A n \in 1..Len(StatLog) :
          StatLog[n].s.t \notin {"str", "function", "method", "int", "float", "tuple"}
             => ret = Raise("TypeError")

\* The number of entries the definitions of a finished call write.
RECURSIVE Written(_)
Written(n) ==
    IF n = 0 THEN 0
    ELSE Written(n - 1)
         + (IF split /\ ValueAt(n).t = "tuple" THEN Len(ValueAt(n).elems) ELSE 1)

\* An entry written under its own name is also generated by a split.
WriteClash ==
    \E n, m \in 1..Len(self) :
       /\ split /\ ValueAt(n).t = "tuple" /\ ValueAt(m).t # "tuple"
       /\ \E j \in 1..Len(ValueAt(n).elems) : self[m].k = fmt_key(self[n].k, j - 1)

\* C9 as stated: with split, no entry is overwritten: the result has as
\* many entries as its definitions write.
C9_AsStated ==
    (pc = "returned" /\ split) => Len(Result) = Written(Len(self))

\* C9, amended: that holds exactly when no entry written under its own
\* name is also generated by a split; otherwise the later write replaces
\* the earlier and the result has fewer entries.
C9_Count ==
    (pc = "returned" /\ split) =>
       /\ ~WriteClash => Len(Result) = Written(Len(self))
       /\ WriteClash => Len(Result) < Written(Len(self))

C9_Witness ==
    /\ pc = "returned" /\ split /\ ~WriteClash
    /\ Len(self) = 2 /\ Len(Result) = 3

\* The n-th name has an entry of its own or one generated from it.
Represented(n) ==
    \/ HasKey(Result, self[n].k)
    \/ \E j \in 0..Len(Result) : HasKey(Result, fmt_key(self[n].k, j))

\* C10 as stated: every name is represented in the result; without split
\* the result has the names of the set, in its order.
C10_AsStated ==
    pc = "returned" =>
       /\ ~split => Keys(Result) = Keys(self)
       /\ split => \A n \in 1..Len(self) : Represented(n)

\* C10, amended: with split, every name whose value is not the empty
\* tuple is represented.
C10_Names ==
    pc = "returned" =>
       /\ ~split => Keys(Result) = Keys(self)
       /\ split => \A n \in 1..Len(self) : ValueAt(n) # Tup(<<>>) => Represented(n)

C10_Witness ==
    /\ pc = "returned" /\ split /\ Len(self) = 2
    /\ ValueAt(1) = Tup(<<>>) /\ ValueAt(2).t = "tuple" /\ ValueAt(2) # Tup(<<>>)
    /\ ~Represented(1)

\* [evaluate(key, e) for e in xs], from the n-th element on.
RECURSIVE Projected(_, _, _)
Projected(k, es, acc) ==
    IF es = <<>> THEN Ok(acc)
    ELSE IF _call(k, Head(es)).ok
         THEN Projected(k, Tail(es), Append(acc, _call(k, Head(es)).val))
         ELSE _call(k, Head(es))

\* C5: with any key other than None, the call on an iterable subject gives
\* what the statistics give on the collection projected by hand.  Stated
\* for a module in which np names numpy: without it line 170 cannot run.
C5_Projection ==
    (Finished /\ np_bound /\ key # None /\ iterable(arg)) =>
       ret = IF Projected(key, arg.elems, <<>>).ok
             THEN Statistics_do(self, np_array(Projected(key, arg.elems, <<>>).val), split)
             ELSE Projected(key, arg.elems, <<>>)

\* C6: with no key, the call gives what a Statistics set of the same
\* definitions gives on the same subject, which is passed on unchanged.
C6_NoKey ==
    (Finished /\ key = None) =>
       /\ ret = Statistics_do(self, arg, split)
       /\ obj = arg
       /\ KeyLog = <<>>

C6_Witness ==
    /\ pc = "returned" /\ key = None /\ arg = List(<<ObjA, ObjD>>)
    /\ Len(self) = 2 /\ Len(Result) = 2

\* The first definition that fails on the subject the loop sees, if any.
FirstFailing ==
    IF \E n \in 1..Len(self) : ~_call(self[n].s, obj).ok
    THEN CHOOSE n \in 1..Len(self) :
            /\ ~_call(self[n].s, obj).ok
            /\ \A m \in 1..(n - 1) : _call(self[m].s, obj).ok
    ELSE 0

\* C7: definitions are evaluated one at a time in the set's order, after
\* the key; the first evaluation that fails ends the call, its error is
\* what the caller gets, nothing later is evaluated and no mapping is
\* returned; a failure of the key comes before any definition.
C7_FirstFailure ==
    /\ \A n \in 1..Len(StatLog) : StatLog[n].s = self[n].s /\ StatLog[n].x = obj
    /\ log = KeyLog \o StatLog
    /\ \A n \in 1..(Len(log) - 1) : log[n].out.ok
    /\ (log # <<>> /\ ~log[Len(log)].out.ok) =>
          /\ pc = "raised"
          /\ ret = log[Len(log)].out
    /\ pc = "raised" => ~ret.ok
    /\ pc = "returned" => /\ Len(StatLog) = Len(self)
                        /\ FirstFailing = 0
                        /\ \A n \in 1..Len(log) : log[n].out.ok
    /\ (pc = "raised" /\ StatLog # <<>>) => Len(StatLog) = FirstFailing
    /\ (\E n \in 1..Len(KeyLog) : ~KeyLog[n].out.ok) => StatLog = <<>>

C7_Witness ==
    /\ pc = "raised" /\ Len(self) = 2 /\ KeyLog # <<>>
    /\ Len(StatLog) = 1 /\ ret = StatLog[1].out

\* C8: no step of a call changes the set or its key, the key changes only
\* between calls, and the same call made twice gives the same both times.
C8_Reuse ==
    /\ [](Finished /\ prev # NoPrev => ret = prev)
    /\ [][self' = self /\ (key' # key => pc = "idle" /\ pc' = "idle")]_vars

C8_Witness ==
    /\ pc = "returned" /\ prev = ret /\ KeyLog # <<>>
    /\ Len(Result) = 2

====
